---- MODULE Spec2Model ----
(***************************************************************************)
(* Rain predictor (src/app.py): analogue feature synthesis, prediction,    *)
(* interpretation, range / monthly aggregation and the two front ends      *)
(* (command line and interactive menu).                                    *)
(*                                                                         *)
(* Dates are calendar dates (year, month, day) of the proleptic Gregorian   *)
(* calendar.  Probabilities are whole percents.  The                       *)
(* historical table is the table cargar_datos_historicos returns, with the *)
(* columns date, tavg, tmin, tmax, prcp, wspd, pres, wdir and no null in   *)
(* tavg and prcp; only date, tavg and prcp carry values here.  The fitted  *)
(* scaler and classifier are opaque artifacts: they are represented by a   *)
(* response table keyed by the day_of_week component of the vector and by  *)
(* the set of keys on which transform / predict raise.                     *)
(***************************************************************************)
EXTENDS Integers, Sequences, FiniteSets, TLC

VARIABLES disco, pc, interfaz, modelo, df_historico, peticion,
          salida, fallo, traza, resultados, resumen

vars == <<disco, pc, interfaz, modelo, df_historico, peticion,
          salida, fallo, traza, resultados, resumen>>

\* Python's None where a number is expected.
Nulo == -1

\* A date string dateutil cannot parse.
FechaMala == [year |-> 0, month |-> 0, day |-> 0]

\* An input that int() cannot convert.
NoNumerico == -2

\* Largest number of rows of the historical table.
MaxFilas == 2

\* Largest number of days of a requested range.
MaxDias == 32

(***************************************************************************)
(* Calendar                                                                *)
(***************************************************************************)
EsBisiesto(y) == y % 4 = 0 /\ (y % 100 # 0 \/ y % 400 = 0)

DiasEnMes(y, m) ==
  IF m = 2 THEN (IF EsBisiesto(y) THEN 29 ELSE 28)
  ELSE IF m \in {4, 6, 9, 11} THEN 30 ELSE 31

DiasAntesDeAnio(y) ==
  (y - 1) * 365 + ((y - 1) \div 4) - ((y - 1) \div 100) + ((y - 1) \div 400)

RECURSIVE DiasAntesDeMes(_, _)
DiasAntesDeMes(y, m) ==
  IF m = 1 THEN 0 ELSE DiasAntesDeMes(y, m - 1) + DiasEnMes(y, m - 1)

\* pd.Timestamp(year=y, month=m, day=d)
Timestamp(y, m, d) == [year |-> y, month |-> m, day |-> d]

\* fecha.toordinal(): day 1 is 0001-01-01
Ordinal(f) == DiasAntesDeAnio(f.year) + DiasAntesDeMes(f.year, f.month) + f.day

\* fecha.timetuple().tm_yday
DiaDelAnio(f) == DiasAntesDeMes(f.year, f.month) + f.day

\* fecha.weekday(): 0 = Monday ... 6 = Sunday
DiaSemana(f) == (Ordinal(f) + 6) % 7

\* fecha + one day, the step of pd.date_range
Siguiente(f) ==
  IF f.day < DiasEnMes(f.year, f.month) THEN Timestamp(f.year, f.month, f.day + 1)
  ELSE IF f.month < 12 THEN Timestamp(f.year, f.month + 1, 1)
  ELSE Timestamp(f.year + 1, 1, 1)

\* a > b on dates
Posterior(a, b) ==
  \/ a.year > b.year
  \/ a.year = b.year /\ a.month > b.month
  \/ a.year = b.year /\ a.month = b.month /\ a.day > b.day

\* ts + pd.offsets.MonthEnd(1): the first month end strictly after ts
MonthEnd(f) ==
  IF f.day = DiasEnMes(f.year, f.month)
  THEN IF f.month = 12
       THEN Timestamp(f.year + 1, 1, 31)
       ELSE Timestamp(f.year, f.month + 1, DiasEnMes(f.year, f.month + 1))
  ELSE Timestamp(f.year, f.month, DiasEnMes(f.year, f.month))

(***************************************************************************)
(* Artifacts on disk                                                       *)
(***************************************************************************)
\* Columns of the historical CSV file.
ColumnasTabla == {"date", "tavg", "tmin", "tmax", "prcp", "wspd", "pres", "wdir"}

\* Rows the historical table is built from (date, tavg, prcp).
Fila(y, m, d, t, p) == [date |-> Timestamp(y, m, d), tavg |-> t, prcp |-> p]

FilasPosibles ==
  { Fila(2020, 1, 2, 10, 0), Fila(2021, 1, 15, 21, 3), Fila(2020, 2, 29, 8, 4),
    Fila(2021, 3, 2, 12, 0), Fila(2020, 12, 31, 5, 2) }

Tablas == { T \in SUBSET FilasPosibles : Cardinality(T) <= MaxFilas }

\* features.pkl: the names the classifier was fitted on.
Completas == {"tavg", "prcp", "pres", "month", "day_of_year", "day_of_week",
              "season", "tavg_3d_mean", "prcp_3d_sum", "pres_diff",
              "wdir_sin", "wdir_cos"}

ListasCaracteristicas == {Completas, Completas \cup {"humidity"}}

\* predict_proba(...)[:, 1][0] * 100 by day_of_week (index day_of_week + 1).
Probas == { <<0, 20, 39, 40, 60, 80, 100>>, <<19, 21, 50, 51, 59, 79, 99>> }

\* Keys on which escalador.transform / modelo.predict_proba raise.
Fallas == { {}, {2, 3}, 0..6 }

Modelos ==
  { [existe |-> TRUE, proba |-> p, falla |-> F, caracteristicas |-> c] :
      p \in Probas, F \in Fallas, c \in ListasCaracteristicas }

SinModelo ==
  [existe |-> FALSE, proba |-> <<0, 0, 0, 0, 0, 0, 0>>, falla |-> {},
   caracteristicas |-> {}]

SinDatos == [existe |-> FALSE, filas |-> {}]

(***************************************************************************)
(* cargar_modelo, cargar_datos_historicos                                  *)
(***************************************************************************)
cargar_modelo(d) == d.modelo

cargar_datos_historicos(d) == d.datos

(***************************************************************************)
(* preparar_datos_fecha                                                    *)
(***************************************************************************)
\* variant: only the rows of the very day of the month
VentanaDias_mismo_dia(df, fecha) ==
  { r \in df : r.date.month = fecha.month /\ r.date.day = fecha.day }

\* rows of the same month whose day of month is fecha.day-1, fecha.day or
\* fecha.day+1
VentanaDias(df, fecha) ==
  { r \in df : /\ r.date.month = fecha.month
               /\ r.date.day \in {fecha.day - 1, fecha.day, fecha.day + 1} }

MismoMes(df, fecha) == { r \in df : r.date.month = fecha.month }

datos_similares(df, fecha) ==
  IF VentanaDias(df, fecha) = {} THEN MismoMes(df, fecha)
  ELSE VentanaDias(df, fecha)

RECURSIVE SumaTavg(_)
SumaTavg(S) ==
  IF S = {} THEN 0
  ELSE LET r == CHOOSE x \in S : TRUE IN r.tavg + SumaTavg(S \ {r})

RECURSIVE SumaPrcp(_)
SumaPrcp(S) ==
  IF S = {} THEN 0
  ELSE LET r == CHOOSE x \in S : TRUE IN r.prcp + SumaPrcp(S \ {r})

\* column means, as exact fractions
MediaTavg(S) == [num |-> SumaTavg(S), den |-> Cardinality(S)]

MediaPrcp(S) == [num |-> SumaPrcp(S), den |-> Cardinality(S)]

Cero == [num |-> 0, den |-> 1]

\* variant: quarters of the calendar year
season_trimestre(m) == (m + 2) \div 3

season(m) == ((m % 12) + 3) \div 3

tavg_3d_mean(v) == v.tavg

\* variant: the precipitation of three such days
prcp_3d_sum_triple(v) == [num |-> 3 * v.prcp.num, den |-> v.prcp.den]

prcp_3d_sum(v) == v.prcp

pres_diff(v) == 0

ColumnasDerivadas ==
  {"month", "day_of_year", "day_of_week", "season", "tavg_3d_mean",
   "prcp_3d_sum", "pres_diff", "wdir_sin", "wdir_cos"}

\* datos_similares.mean() with the calendar features of the target date
Base(S, fecha) ==
  [tavg |-> MediaTavg(S), prcp |-> MediaPrcp(S), month |-> fecha.month,
   day_of_year |-> DiaDelAnio(fecha), day_of_week |-> DiaSemana(fecha),
   season |-> season(fecha.month)]

VectorNulo ==
  [tavg |-> Cero, prcp |-> Cero, month |-> 0, day_of_year |-> 0,
   day_of_week |-> 0, season |-> 0, tavg_3d_mean |-> Cero,
   prcp_3d_sum |-> Cero, pres_diff |-> 0]

\* The return value: es_none is TRUE for None; similares is the analogue
\* set the vector was averaged over.
preparar_datos_fecha(df, fecha) ==
  LET S == datos_similares(df, fecha)
      b == Base(S, fecha)
  IN IF S = {}
     THEN [fecha |-> fecha, es_none |-> TRUE, similares |-> S,
           df_prediccion |-> VectorNulo]
     ELSE [fecha |-> fecha, es_none |-> FALSE, similares |-> S,
           df_prediccion |->
             [tavg |-> b.tavg, prcp |-> b.prcp, month |-> b.month,
              day_of_year |-> b.day_of_year, day_of_week |-> b.day_of_week,
              season |-> b.season, tavg_3d_mean |-> tavg_3d_mean(b),
              prcp_3d_sum |-> prcp_3d_sum(b), pres_diff |-> pres_diff(b)]]

(***************************************************************************)
(* predecir_probabilidad_lluvia, interpretar_probabilidad                  *)
(***************************************************************************)
\* df_datos.columns: the columns of the table and the derived ones
columns(v) == ColumnasTabla \cup ColumnasDerivadas

missing_features(art, v) == art.caracteristicas \ columns(v)

\* escalador.transform and the two classifier calls raise
Excepcion(art, v) == v.day_of_week \in art.falla

predict_proba(art, v) == art.proba[v.day_of_week + 1]

\* modelo.predict: the class of larger probability
predict(art, v) == IF predict_proba(art, v) > 50 THEN 1 ELSE 0

\* (prediccion, probabilidad) and the diagnostic it prints
predecir_probabilidad_lluvia(art, v) ==
  IF missing_features(art, v) # {}
  THEN [prediccion |-> Nulo, probabilidad |-> Nulo, aviso |-> "faltan"]
  ELSE IF Excepcion(art, v)
  THEN [prediccion |-> Nulo, probabilidad |-> Nulo, aviso |-> "error_prediccion"]
  ELSE [prediccion |-> predict(art, v), probabilidad |-> predict_proba(art, v),
        aviso |-> ""]

\* variant: the bands closed above
interpretar_probabilidad_cerrada(probabilidad) ==
  IF probabilidad = Nulo THEN "No se pudo determinar"
  ELSE IF probabilidad <= 20 THEN "Muy baja"
  ELSE IF probabilidad <= 40 THEN "Baja"
  ELSE IF probabilidad <= 60 THEN "Moderada"
  ELSE IF probabilidad <= 80 THEN "Alta"
  ELSE "Muy alta"

interpretar_probabilidad(probabilidad) ==
  IF probabilidad = Nulo THEN "No se pudo determinar"
  ELSE IF probabilidad < 20 THEN "Muy baja"
  ELSE IF probabilidad < 40 THEN "Baja"
  ELSE IF probabilidad < 60 THEN "Moderada"
  ELSE IF probabilidad < 80 THEN "Alta"
  ELSE "Muy alta"

\* 'Lluvia' if prediccion == 1 else 'No lluvia'
Etiqueta(prediccion) == IF prediccion = 1 THEN "Lluvia" ELSE "No lluvia"

(***************************************************************************)
(* generar_pronostico_rango, analisis_mensual                              *)
(***************************************************************************)
\* A printed line.
Linea(tipo, fecha) ==
  [tipo |-> tipo, fecha |-> fecha, prediccion |-> "", probabilidad |-> Nulo,
   interpretacion |-> ""]

\* pd.date_range(start, end): every day from start to end, both included
RECURSIVE date_range(_, _)
date_range(fecha_inicio, fecha_fin) ==
  IF Posterior(fecha_inicio, fecha_fin) THEN <<>>
  ELSE <<fecha_inicio>> \o date_range(Siguiente(fecha_inicio), fecha_fin)

\* the dictionary appended to resultados
Resultado(fecha, pr) ==
  [tipo |-> "fila", fecha |-> fecha, prediccion |-> Etiqueta(pr.prediccion),
   probabilidad |-> pr.probabilidad,
   interpretacion |-> interpretar_probabilidad(pr.probabilidad)]

\* variant: a result for every date, synthesized or not
Agregar_siempre(s, pr) == <<Resultado(s.fecha, pr)>>

\* what one pass of the loop appends to resultados
Agregar(s, pr) ==
  IF s.es_none THEN <<>> ELSE <<Resultado(s.fecha, pr)>>

\* what one pass of the loop prints
AvisosDe(s, pr) ==
  IF s.es_none THEN <<Linea("sin_datos", s.fecha)>>
  ELSE IF pr.aviso # "" THEN <<Linea(pr.aviso, s.fecha)>>
  ELSE <<>>

\* one pass of the loop: synthesis for fecha, then the prediction
Paso(df, art, fecha, acc) ==
  LET s == preparar_datos_fecha(df, fecha)
      pr == predecir_probabilidad_lluvia(art, s.df_prediccion)
  IN [resultados |-> acc.resultados \o Agregar(s, pr),
      traza |-> Append(acc.traza, s),
      avisos |-> acc.avisos \o AvisosDe(s, pr)]

\* the loop over fechas, from position i on
RECURSIVE Recorrer(_, _, _, _, _)
Recorrer(df, art, fechas, i, acc) ==
  IF i > Len(fechas) THEN acc
  ELSE Recorrer(df, art, fechas, i + 1, Paso(df, art, fechas[i], acc))

generar_pronostico_rango(df, art, fecha_inicio, fecha_fin) ==
  Recorrer(df, art, date_range(fecha_inicio, fecha_fin), 1,
           [resultados |-> <<>>, traza |-> <<>>, avisos |-> <<>>])

\* variant: the month taken as thirty days
analisis_mensual_treinta(df, art, anio, mes) ==
  generar_pronostico_rango(df, art, Timestamp(anio, mes, 1),
                           Timestamp(anio, mes, 30))

analisis_mensual(df, art, anio, mes) ==
  LET ultimo_dia == MonthEnd(Timestamp(anio, mes, 1))
      dias_en_mes == ultimo_dia.day
  IN generar_pronostico_rango(df, art, Timestamp(anio, mes, 1),
                              Timestamp(anio, mes, dias_en_mes))

(***************************************************************************)
(* Reporting                                                               *)
(***************************************************************************)
Vacio ==
  [salida |-> <<>>, fallo |-> "ninguno", traza |-> <<>>, resultados |-> <<>>,
   resumen |-> <<>>]

SoloSalida(lineas) == [Vacio EXCEPT !.salida = lineas]

\* position of the first result whose probabilidad is None, 0 when none is
PrimerNulo(res) ==
  IF \E i \in 1..Len(res) : res[i].probabilidad = Nulo
  THEN CHOOSE i \in 1..Len(res) :
         /\ res[i].probabilidad = Nulo
         /\ \A j \in 1..(i - 1) : res[j].probabilidad # Nulo
  ELSE 0

\* the rows the loop over resultados prints: f"{probabilidad:.2f}" raises
\* TypeError on None
FilasImpresas(res) ==
  IF PrimerNulo(res) = 0 THEN res ELSE SubSeq(res, 1, PrimerNulo(res) - 1)

RECURSIVE SumaProb(_, _)
SumaProb(res, i) ==
  IF i > Len(res) THEN 0 ELSE res[i].probabilidad + SumaProb(res, i + 1)

Resumen(res) ==
  [dias_lluvia |-> Cardinality({i \in 1..Len(res) : res[i].prediccion = "Lluvia"}),
   total |-> Len(res),
   media |-> [num |-> SumaProb(res, 1), den |-> Len(res)],
   maximo |-> CHOOSE p \in {res[i].probabilidad : i \in 1..Len(res)} :
                \A i \in 1..Len(res) : res[i].probabilidad <= p,
   minimo |-> CHOOSE p \in {res[i].probabilidad : i \in 1..Len(res)} :
                \A i \in 1..Len(res) : p <= res[i].probabilidad]

\* the table of a range or of a month
Tabla(g, fecha_inicio) ==
  [salida |-> g.avisos \o <<Linea("encabezado", fecha_inicio)>>
                \o FilasImpresas(g.resultados),
   fallo |-> IF PrimerNulo(g.resultados) = 0 THEN "ninguno" ELSE "TypeError",
   traza |-> g.traza, resultados |-> g.resultados, resumen |-> <<>>]

\* the summary printed after the table of a month
ConResumen(t, anio, mes) ==
  IF t.fallo # "ninguno" THEN t
  ELSE IF Len(t.resultados) = 0
  THEN [t EXCEPT !.salida = @ \o <<Linea("resumen", Timestamp(anio, mes, 1))>>,
                 !.fallo = "ZeroDivisionError"]
  ELSE [t EXCEPT !.salida = @ \o <<Linea("resumen", Timestamp(anio, mes, 1))>>,
                 !.resumen = <<Resumen(t.resultados)>>]

(***************************************************************************)
(* The three requests, as both front ends serve them                       *)
(***************************************************************************)
\* the line "Probabilidad de lluvia: ..." of a single date
LineaProbabilidad(front, fecha, pr) ==
  IF pr.probabilidad # Nulo
  THEN [Linea("probabilidad", fecha) EXCEPT !.probabilidad = pr.probabilidad]
  ELSE Linea("no_disponible", fecha)

PeticionFecha(front, df, art, a) ==
  IF a = FechaMala THEN SoloSalida(<<Linea("error_formato", FechaMala)>>)
  ELSE
    LET s == preparar_datos_fecha(df, a)
        pr == predecir_probabilidad_lluvia(art, s.df_prediccion)
        cabeza == AvisosDe(s, pr) \o
                  <<Linea("titulo", a),
                    [Linea("resultado", a) EXCEPT
                       !.prediccion = Etiqueta(pr.prediccion)]>>
        cola == <<[Linea("interpretacion", a) EXCEPT
                     !.interpretacion = interpretar_probabilidad(pr.probabilidad)]>>
    IN IF s.es_none
       THEN [Vacio EXCEPT !.salida = AvisosDe(s, pr), !.traza = <<s>>]
       ELSE IF front = "cli" /\ pr.probabilidad = Nulo
       THEN [Vacio EXCEPT !.salida = cabeza, !.fallo = "TypeError",
                          !.traza = <<s>>]
       ELSE [Vacio EXCEPT
               !.salida = cabeza \o <<LineaProbabilidad(front, a, pr)>> \o cola,
               !.traza = <<s>>]

\* variant: the check left out
RangoInvertido_sin_control(fecha_inicio, fecha_fin) == FALSE

\* the check both front ends make before a range is generated
RangoInvertido(fecha_inicio, fecha_fin) == Posterior(fecha_inicio, fecha_fin)

PeticionRango(df, art, a, b) ==
  IF a = FechaMala \/ b = FechaMala
  THEN SoloSalida(<<Linea("error_formato", FechaMala)>>)
  ELSE IF RangoInvertido(a, b)
  THEN SoloSalida(<<Linea("error_rango", FechaMala)>>)
  ELSE Tabla(generar_pronostico_rango(df, art, a, b), a)

PeticionMes(df, art, anio, mes) ==
  IF anio = NoNumerico \/ mes = NoNumerico
  THEN SoloSalida(<<Linea("error_numerico", FechaMala)>>)
  ELSE IF mes < 1 \/ mes > 12
  THEN SoloSalida(<<Linea("error_mes", FechaMala)>>)
  ELSE ConResumen(Tabla(analisis_mensual(df, art, anio, mes),
                        Timestamp(anio, mes, 1)), anio, mes)

(***************************************************************************)
(* Inputs                                                                  *)
(***************************************************************************)
FechasObjetivo ==
  { Timestamp(2023, 12, 31), Timestamp(2024, 1, 1), Timestamp(2024, 1, 3),
    Timestamp(2024, 1, 31), Timestamp(2024, 3, 1) }

Cadenas == FechasObjetivo \cup {FechaMala}

\* the pairs (start, end) a range is requested with
RangosPedidos ==
  { r \in Cadenas \X Cadenas :
      r[1] = FechaMala \/ r[2] = FechaMala
        \/ ( /\ Ordinal(r[2]) - Ordinal(r[1]) < MaxDias
             /\ Ordinal(r[1]) - Ordinal(r[2]) < MaxDias ) }

\* the pairs (year, month) a monthly analysis is requested with
MesesPedidos ==
  ({2024} \X (0..13)) \cup ({1900, 2000, 2023} \X {2})

\* the same, with the inputs int() rejects
MesesTecleados ==
  MesesPedidos \cup {<<NoNumerico, 1>>, <<2024, NoNumerico>>}

ModelosEnDisco ==
  { m \in Modelos :
      (m.caracteristicas = Completas /\ (m.falla = {} \/ m.proba[1] = 0))
        \/ (m.falla = {} /\ m.proba = <<0, 20, 39, 40, 60, 80, 100>>) }

(***************************************************************************)
(* State machine                                                           *)
(***************************************************************************)
Init ==
  /\ disco \in [modelo : ModelosEnDisco \cup {SinModelo},
                datos : {[existe |-> TRUE, filas |-> T] : T \in Tablas}
                          \cup {SinDatos}]
  /\ pc = "inicio"
  /\ interfaz = "ninguna"
  /\ modelo = SinModelo
  /\ df_historico = {}
  /\ peticion = [tipo |-> "ninguna", a |-> FechaMala, b |-> FechaMala,
                 anio |-> 0, mes |-> 0]
  /\ salida = <<>>
  /\ fallo = "ninguno"
  /\ traza = <<>>
  /\ resultados = <<>>
  /\ resumen = <<>>

\* the request a front end was given
Pedir(tipo, a, b, anio, mes) ==
  [tipo |-> tipo, a |-> a, b |-> b, anio |-> anio, mes |-> mes]

\* the outcome r of a request becomes the state of the last request
Informar(r) ==
  /\ salida' = r.salida
  /\ fallo' = r.fallo
  /\ traza' = r.traza
  /\ resultados' = r.resultados
  /\ resumen' = r.resumen

\* cargar_modelo and cargar_datos_historicos at the head of both front ends:
\* the run goes on only when both artifacts are there
Cargar ==
  /\ modelo' = cargar_modelo(disco)
  /\ df_historico' =
       IF cargar_modelo(disco).existe
       THEN cargar_datos_historicos(disco).filas ELSE {}

Cargado == cargar_modelo(disco).existe /\ cargar_datos_historicos(disco).existe

ErrorDeCarga ==
  IF cargar_modelo(disco).existe
  THEN SoloSalida(<<Linea("error_datos", FechaMala)>>)
  ELSE SoloSalida(<<Linea("error_modelo", FechaMala)>>)

\* interfaz_linea_comandos: one run serves one request r and ends
LineaDeComandos(p, r) ==
  /\ pc = "inicio"
  /\ interfaz' = "cli"
  /\ peticion' = p
  /\ Cargar
  /\ IF Cargado
     THEN \E hecho \in {r} :
            /\ Informar(hecho)
            /\ pc' = IF hecho.fallo = "ninguno" THEN "fin" ELSE "abortado"
     ELSE /\ Informar(ErrorDeCarga)
          /\ pc' = "fin"
  /\ UNCHANGED disco

CliFecha ==
  \E a \in Cadenas :
    LineaDeComandos(Pedir("fecha", a, FechaMala, 0, 0),
      PeticionFecha("cli", cargar_datos_historicos(disco).filas,
                    cargar_modelo(disco), a))

CliRango ==
  \E r \in RangosPedidos :
    LineaDeComandos(Pedir("rango", r[1], r[2], 0, 0),
      PeticionRango(cargar_datos_historicos(disco).filas,
                    cargar_modelo(disco), r[1], r[2]))

CliMes ==
  \E m \in MesesPedidos :
    LineaDeComandos(Pedir("mes", FechaMala, FechaMala, m[1], m[2]),
      PeticionMes(cargar_datos_historicos(disco).filas,
                  cargar_modelo(disco), m[1], m[2]))

\* interfaz_interactiva up to the first menu
IniciarInteractiva ==
  /\ pc = "inicio"
  /\ interfaz' = "interactiva"
  /\ Cargar
  /\ IF Cargado
     THEN /\ pc' = "menu"
          /\ Informar(Vacio)
     ELSE /\ pc' = "fin"
          /\ Informar(ErrorDeCarga)
  /\ UNCHANGED <<disco, peticion>>

\* one pass of the menu loop serving request r
Menu(p, r) ==
  /\ pc = "menu"
  /\ peticion' = p
  /\ \E hecho \in {r} :
       /\ Informar(hecho)
       /\ pc' = IF hecho.fallo = "ninguno" THEN "menu" ELSE "abortado"
  /\ UNCHANGED <<disco, interfaz, modelo, df_historico>>

Opcion1 ==
  \E a \in Cadenas :
    Menu(Pedir("fecha", a, FechaMala, 0, 0),
         PeticionFecha("interactiva", df_historico, modelo, a))

Opcion2 ==
  \E r \in RangosPedidos :
    Menu(Pedir("rango", r[1], r[2], 0, 0),
         PeticionRango(df_historico, modelo, r[1], r[2]))

Opcion3 ==
  \E m \in MesesTecleados :
    Menu(Pedir("mes", FechaMala, FechaMala, m[1], m[2]),
         PeticionMes(df_historico, modelo, m[1], m[2]))

Opcion4 ==
  /\ pc = "menu"
  /\ pc' = "fin"
  /\ peticion' = Pedir("salir", FechaMala, FechaMala, 0, 0)
  /\ Informar(SoloSalida(<<Linea("despedida", FechaMala)>>))
  /\ UNCHANGED <<disco, interfaz, modelo, df_historico>>

OpcionNoValida ==
  Menu(Pedir("no_valida", FechaMala, FechaMala, 0, 0), SoloSalida(<<Linea("opcion_no_valida", FechaMala)>>))

Next ==
  \/ CliFecha
  \/ CliRango
  \/ CliMes
  \/ IniciarInteractiva
  \/ Opcion1
  \/ Opcion2
  \/ Opcion3
  \/ Opcion4
  \/ OpcionNoValida

Spec == Init /\ [][Next]_vars

(***************************************************************************)
(* Properties                                                              *)
(***************************************************************************)
\* the last request was of the given kind and both artifacts were loaded
Servida(tipo) == peticion.tipo = tipo /\ Cargado

TiposDe(lineas) == { lineas[i].tipo : i \in 1..Len(lineas) }

\* the entries of traza whose synthesis returned a vector
ConVector == { i \in 1..Len(traza) : ~traza[i].es_none }

\* C1: a single-date request for a well-formed date ends, in both front
\* ends, either with a label and a probability between 0 and 100 reported
\* or with unavailability reported, and never with an unhandled fault.
C1_FechaSinFallo ==
  (Servida("fecha") /\ peticion.a # FechaMala) =>
    /\ fallo = "ninguno"
    /\ \/ \E i \in 1..Len(salida) :
            /\ salida[i].tipo = "probabilidad"
            /\ 0 <= salida[i].probabilidad /\ salida[i].probabilidad <= 100
       \/ TiposDe(salida) \cap
            {"sin_datos", "faltan", "error_prediccion", "no_disponible"} # {}

\* a range or a month that passed the validation of the inputs
LoteValido ==
  \/ /\ Servida("rango")
     /\ peticion.a # FechaMala /\ peticion.b # FechaMala
     /\ ~Posterior(peticion.a, peticion.b)
  \/ /\ Servida("mes")
     /\ peticion.anio # NoNumerico /\ peticion.mes # NoNumerico
     /\ 1 <= peticion.mes /\ peticion.mes <= 12

\* C2: in a range or monthly request the soft errors of single dates do not
\* abort the request: no unhandled fault, every result that carries a
\* probability is reported, and a monthly request reports its summary.
C2_LoteNoAborta ==
  LoteValido =>
    /\ fallo = "ninguno"
    /\ \A i \in 1..Len(resultados) :
         resultados[i].probabilidad # Nulo =>
           \E j \in 1..Len(salida) : salida[j] = resultados[i]
    /\ peticion.tipo = "mes" => "resumen" \in TiposDe(salida)

\* C3: for start <= end the results of generar_pronostico_rango hold one
\* result for each day of [start, end] whose synthesis returned a vector and
\* none for the others, in strictly increasing calendar order.
C3_RangoOrdenado ==
  (Servida("rango") /\ peticion.a # FechaMala /\ peticion.b # FechaMala
     /\ ~Posterior(peticion.a, peticion.b)) =>
    /\ Len(traza) = Ordinal(peticion.b) - Ordinal(peticion.a) + 1
    /\ \A k \in 1..Len(traza) :
         Ordinal(traza[k].fecha) = Ordinal(peticion.a) + k - 1
    /\ \A k \in 1..Len(traza) :
         Cardinality({ i \in 1..Len(resultados) :
                         resultados[i].fecha = traza[k].fecha })
           = IF traza[k].es_none THEN 0 ELSE 1
    /\ \A i \in 1..Len(resultados) :
         \E k \in ConVector : traza[k].fecha = resultados[i].fecha
    /\ \A i, j \in 1..Len(resultados) :
         i < j => Ordinal(resultados[i].fecha) < Ordinal(resultados[j].fecha)
    /\ Len(resultados) = Len(traza) - Cardinality({ k \in 1..Len(traza) : traza[k].es_none })

\* a range of several days of which some have no analogue and some have
C3_Testigo ==
  /\ Servida("rango")
  /\ ~Posterior(peticion.a, peticion.b)
  /\ Len(traza) >= 3
  /\ Len(resultados) > 0
  /\ Len(resultados) < Len(traza)

\* C4: the analogue set of a target date is the set of rows of its month with
\* day in {d-1, d, d+1} when that set is not empty, all the rows of the month
\* when it is empty, and synthesis returns None only when the table has no row
\* of the month.
C4_Analogos ==
  \A k \in 1..Len(traza) :
    LET f == traza[k].fecha
        delMes == { r \in df_historico : r.date.month = f.month }
        cerca == { r \in delMes : r.date.day - f.day \in {-1, 0, 1} }
    IN /\ cerca # {} => traza[k].similares = cerca
       /\ cerca = {} => traza[k].similares = delMes
       /\ traza[k].es_none <=> delMes = {}

\* one request with a date served by its window, narrower than the month, and
\* a date served by the whole month
C4_Testigo ==
  /\ \E k \in ConVector :
       /\ \E r \in traza[k].similares : r.date.day - traza[k].fecha.day \in {-1, 0, 1}
       /\ \E r \in df_historico :
            r.date.month = traza[k].fecha.month /\ r \notin traza[k].similares
  /\ \E k \in ConVector :
       \A r \in traza[k].similares :
         r.date.day - traza[k].fecha.day \notin {-1, 0, 1}

\* C5: a range whose start is after its end is rejected with an error report
\* in both front ends, with no synthesis attempted and no forecast produced.
C5_RangoInvertido ==
  (Servida("rango") /\ peticion.a # FechaMala /\ peticion.b # FechaMala
     /\ Posterior(peticion.a, peticion.b)) =>
    /\ traza = <<>>
    /\ resultados = <<>>
    /\ resumen = <<>>
    /\ TiposDe(salida) = {"error_rango"}
    /\ fallo = "ninguno"

\* an inverted range entered in the menu, which then goes on
C5_Testigo ==
  /\ Servida("rango")
  /\ peticion.a # FechaMala /\ peticion.b # FechaMala
  /\ Posterior(peticion.a, peticion.b)
  /\ interfaz = "interactiva"
  /\ pc = "menu"

\* C6: when scaling or prediction raised for a date (every required feature
\* being there), the result of that date carries no 'rain' / 'no rain' label
\* with its absent probability, neither in resultados nor in the output of a
\* single date.
C6_SinEtiqueta ==
  modelo.caracteristicas \subseteq (ColumnasTabla \cup ColumnasDerivadas) =>
    /\ \A i \in 1..Len(resultados) :
         resultados[i].probabilidad = Nulo =>
           resultados[i].prediccion \notin {"Lluvia", "No lluvia"}
    /\ (Servida("fecha") /\ "error_prediccion" \in TiposDe(salida)) =>
         \A i \in 1..Len(salida) :
           salida[i].prediccion \notin {"Lluvia", "No lluvia"}

\* the number of days of the months requested
DiasDelCalendario(anio, mes) ==
  IF mes \in {1, 3, 5, 7, 8, 10, 12} THEN 31
  ELSE IF mes \in {4, 6, 9, 11} THEN 30
  ELSE IF anio \in {2000, 2024} THEN 29
  ELSE 28

\* C7: analisis_mensual attempts synthesis for the days 1, 2, ... up to the
\* last day of the month of that year and for no other day.
C7_DiasDelMes ==
  (Servida("mes") /\ peticion.anio # NoNumerico /\ peticion.mes # NoNumerico
     /\ 1 <= peticion.mes /\ peticion.mes <= 12) =>
    /\ Len(traza) = DiasDelCalendario(peticion.anio, peticion.mes)
    /\ \A k \in 1..Len(traza) :
         traza[k].fecha = Timestamp(peticion.anio, peticion.mes, k)

\* February of a leap year, twenty-nine days attempted
C7_Testigo ==
  /\ Servida("mes")
  /\ peticion.anio = 2024 /\ peticion.mes = 2
  /\ Len(traza) = 29
  /\ traza[29].fecha = Timestamp(2024, 2, 29)

\* the bands of section 4.4
Banda(p) ==
  IF p = Nulo THEN "No se pudo determinar"
  ELSE IF p \in 0..19 THEN "Muy baja"
  ELSE IF p \in 20..39 THEN "Baja"
  ELSE IF p \in 40..59 THEN "Moderada"
  ELSE IF p \in 60..79 THEN "Alta"
  ELSE IF p \in 80..100 THEN "Muy alta"
  ELSE "fuera"

\* C8: the interpretation reported with a probability is the band of that
\* probability alone, with 20, 40, 60 and 80 in the upper band.
C8_Bandas ==
  /\ \A i \in 1..Len(resultados) :
       resultados[i].interpretacion = Banda(resultados[i].probabilidad)
  /\ \A i \in 2..Len(salida) :
       salida[i].tipo = "interpretacion" =>
         salida[i].interpretacion = Banda(salida[i - 1].probabilidad)

\* results at each of the four boundaries, each in its upper band
C8_Testigo ==
  /\ \E i \in 1..Len(resultados) :
       resultados[i].probabilidad = 20 /\ resultados[i].interpretacion = "Baja"
  /\ \E i \in 1..Len(resultados) :
       resultados[i].probabilidad = 40 /\ resultados[i].interpretacion = "Moderada"
  /\ \E i \in 1..Len(resultados) :
       resultados[i].probabilidad = 60 /\ resultados[i].interpretacion = "Alta"
  /\ \E i \in 1..Len(resultados) :
       resultados[i].probabilidad = 80 /\ resultados[i].interpretacion = "Muy alta"

\* C9 as stated: the vectors of target dates in months 1, 2 and 3 carry the
\* same season.
C9_EneroFebreroMarzo ==
  \A i, j \in ConVector :
    (traza[i].fecha.month \in {1, 2, 3} /\ traza[j].fecha.month \in {1, 2, 3}) =>
      traza[i].df_prediccion.season = traza[j].df_prediccion.season

\* C9 amended: the vectors of target dates in months 12, 1 and 2 carry the
\* same season, and a vector of month 3 carries another.
C9_DiciembreEneroFebrero ==
  \A i, j \in ConVector :
    /\ (traza[i].fecha.month \in {12, 1, 2} /\ traza[j].fecha.month \in {12, 1, 2}) =>
         traza[i].df_prediccion.season = traza[j].df_prediccion.season
    /\ (traza[i].fecha.month \in {12, 1, 2} /\ traza[j].fecha.month = 3) =>
         traza[i].df_prediccion.season # traza[j].df_prediccion.season

\* one request with vectors for December and for January
C9_Testigo ==
  /\ \E i \in ConVector : traza[i].fecha.month = 12
  /\ \E i \in ConVector : traza[i].fecha.month = 1

\* C10: every synthesized vector has pres_diff 0, tavg_3d_mean equal to its
\* tavg, the mean of tavg over the analogue set, and prcp_3d_sum equal to its
\* prcp.
C10_Derivadas ==
  \A k \in ConVector :
    LET v == traza[k].df_prediccion
    IN /\ v.pres_diff = 0
       /\ v.tavg_3d_mean = v.tavg
       /\ v.prcp_3d_sum = v.prcp
       /\ v.tavg.den = Cardinality(traza[k].similares)
       /\ v.tavg.num = SumaTavg(traza[k].similares)

\* one request with a vector from the window and a vector averaged over
\* the two rows of the month
C10_Testigo ==
  /\ \E k \in ConVector :
       /\ Cardinality(traza[k].similares) = 1
       /\ traza[k].df_prediccion.prcp.num > 0
  /\ \E k \in ConVector :
       /\ Cardinality(traza[k].similares) = 2
       /\ traza[k].df_prediccion.tavg_3d_mean = [num |-> 31, den |-> 2]

====
